---------------------------- MODULE Spec2Model ----------------------------
(***************************************************************************)
(* A model of cannelloni's connection.cpp: the UDP worker (UDPThread), its *)
(* frame pool, its live and in-flight aggregation buffers, the wire codec  *)
(* of transmitBuffer() and of the receive path of run(), and the hand-off  *)
(* to the CAN worker (CANThread::transmitCANFrames).                       *)
(*                                                                         *)
(* Three threads act on the state: the main thread (UDPThread::start and   *)
(* UDPThread::stop), the UDP worker's own thread (Thread::privRun ->       *)
(* UDPThread::run -> transmitBuffer) and the CAN worker's thread, which    *)
(* calls UDPThread::sendCANFrame for every frame read from the bus.        *)
(*                                                                         *)
(* connection.h is not part of the sources at hand.  What it declares      *)
(* (the constants, struct UDPDataPacket, can_frame_comp, member types) is  *)
(* taken from the specification and marked so where it is defined.         *)
(***************************************************************************)
EXTENDS Integers, Sequences, FiniteSets, TLC

(***************************************************************************)
(* Constants of connection.h (values from the specification, section 6).   *)
(***************************************************************************)
CANNELLONI_FRAME_VERSION == 1

CANNELLONI_FRAME_BASE_SIZE == 5

UDP_DATA_PACKET_BASE_SIZE == 5

\* enum op_codes: DATA is the only op code the core emits or accepts.
DATA == 0

\* The sequence number travels in one octet (uint8_t seq_no).
SEQ_MODULUS == 256

\* linux/can.h: the payload field of struct can_frame, data[CAN_MAX_DLEN].
CAN_MAX_DLEN == 8

(***************************************************************************)
(* Bounds of the model.  UDP_PAYLOAD_SIZE is 1472 and FRAME_POOL_SIZE is   *)
(* of the order of 16 in the program; the model scales both down so that   *)
(* a datagram fills, and the pool underflows, after a handful of frames.   *)
(* UDP_PAYLOAD_SIZE stays >= 18 = header + the largest frame record, as in *)
(* the program, so that one frame always fits an empty datagram.           *)
(***************************************************************************)
UDP_PAYLOAD_SIZE == 25

FRAME_POOL_SIZE == 2

\* Frames the CAN worker reads from the bus and admits (sendCANFrame calls).
MaxAdmit == 3

\* Datagrams delivered to the UDP socket.
MaxRecv == 2

\* Largest value the uninitialised m_totalAllocCount is taken to hold.
MaxGarbage == 1

\* sendto() calls that fail or write short.
MaxSendFail == 1

\* Admissions in the specification of the aggregation window (SpecWin).
WinAdmit == 2

\* Frames the bus delivers to the CAN worker (SpecCan, SpecStop).
CanAdmit == 1

\* Datagrams delivered to the UDP socket in the specification of shutdown
\* (SpecStop).
StopRecv == 1

\* Periodic expiries counted after the first admission (the count stops
\* there).
MaxTicks == 2

\* Admissions in the sequence-number wrap-around specification (SpecWrap):
\* one datagram per admitted frame, enough to pass 255 -> 0.
WrapAdmit == 258

(***************************************************************************)
(* CAN frames.  can_id is a 32-bit unsigned value; it is held as the pair  *)
(* <<high 16 bits, low 16 bits>> because the extended-format flag is bit   *)
(* 31 and TLC's integers are 32-bit signed.  data holds the can_dlc         *)
(* significant payload bytes.                                              *)
(***************************************************************************)
CanFrame(hi, lo, payload) ==
  [can_id |-> <<hi, lo>>, can_dlc |-> Len(payload), data |-> payload]

\* SFF frame 0x123 with payload DE AD: 7 bytes on the wire.
FrameA == CanFrame(0, 291, <<222, 173>>)

\* EFF frame (CAN_EFF_FLAG set) 0x80000123 with 8 payload bytes: 13 bytes.
FrameB == CanFrame(32768, 291, <<1, 2, 3, 4, 5, 6, 7, 255>>)

\* SFF frame 0x123 with no payload: 5 bytes.
FrameC == CanFrame(0, 291, <<>>)

Frames == {FrameA, FrameB, FrameC}

(***************************************************************************)
(* Byte order conversions, on octets.                                      *)
(***************************************************************************)
\* (a variant that stores can_id in host order, least significant first)
Htonl_HostOrder(id) ==
  <<id[2] % 256, id[2] \div 256, id[1] % 256, id[1] \div 256>>

\* htonl(can_id) stored at data: the four octets, most significant first.
Htonl(id) == <<id[1] \div 256, id[1] % 256, id[2] \div 256, id[2] % 256>>

\* ntohl of four octets read from the wire.
Ntohl(b1, b2, b3, b4) == <<(b1 * 256) + b2, (b3 * 256) + b4>>

\* htons(frameCount): uint16_t, two octets.
Htons(n) == <<(n % 65536) \div 256, n % 256>>

Ntohs(b1, b2) == (b1 * 256) + b2

(***************************************************************************)
(* struct UDPDataPacket: version, op_code, seq_no, count.                  *)
(***************************************************************************)
PacketHeader(version, op_code, seq_no, count) ==
  <<version, op_code, seq_no>> \o Htons(count)

\* The receive buffer is zeroed before recvfrom, so an octet beyond the
\* received length reads 0.
ByteAt(buffer, i) == IF i <= Len(buffer) THEN buffer[i] ELSE 0

VersionOf(buffer) == ByteAt(buffer, 1)

OpCodeOf(buffer) == ByteAt(buffer, 2)

SeqNoOf(buffer) == ByteAt(buffer, 3)

CountOf(buffer) == Ntohs(ByteAt(buffer, 4), ByteAt(buffer, 5))

(***************************************************************************)
(* can_frame_comp: a strict total order, by unsigned identifier, then by   *)
(* payload length, then by payload, lexicographically.                     *)
(***************************************************************************)
RECURSIVE LexLess(_, _)
LexLess(s, t) ==
  IF s = <<>> THEN t # <<>>
  ELSE IF t = <<>> THEN FALSE
  ELSE IF Head(s) # Head(t) THEN Head(s) < Head(t)
  ELSE LexLess(Tail(s), Tail(t))

can_frame_comp(f1, f2) ==
  IF f1.can_id # f2.can_id THEN LexLess(f1.can_id, f2.can_id)
  ELSE IF f1.can_dlc # f2.can_dlc THEN f1.can_dlc < f2.can_dlc
  ELSE LexLess(f1.data, f2.data)

(***************************************************************************)
(* m_frameBuffer_trans->sort(can_frame_comp()): std::list::sort is a       *)
(* stable sort; each element is inserted behind the elements that are not  *)
(* greater than it.                                                        *)
(***************************************************************************)
RECURSIVE InsertSorted(_, _)
InsertSorted(sorted, f) ==
  IF sorted = <<>> THEN <<f>>
  ELSE IF can_frame_comp(f, Head(sorted)) THEN <<f>> \o sorted
  ELSE <<Head(sorted)>> \o InsertSorted(Tail(sorted), f)

\* (a variant that leaves the buffer in admission order)
SortFrames_Unsorted(frames) == frames

RECURSIVE SortFrames(_)
SortFrames(frames) ==
  IF frames = <<>> THEN <<>>
  ELSE InsertSorted(SortFrames(SubSeq(frames, 1, Len(frames) - 1)),
                    frames[Len(frames)])

(***************************************************************************)
(* sendCANFrame: m_frameBufferSize += CANNELLONI_FRAME_BASE_SIZE + can_dlc *)
(* and the test that re-arms the timer.                                    *)
(***************************************************************************)
\* (a variant that forgets the frame record's header)
AddFrameSize_PayloadOnly(size, frame) == size + frame.can_dlc

AddFrameSize(size, frame) ==
  size + CANNELLONI_FRAME_BASE_SIZE + frame.can_dlc

SizeTrigger(size) == size + UDP_DATA_PACKET_BASE_SIZE >= UDP_PAYLOAD_SIZE

(***************************************************************************)
(* transmitBuffer, the frame record: identifier (htonl), length, payload.  *)
(***************************************************************************)
EncodeFrame(f) ==
  Htonl(f.can_id) \o <<f.can_dlc>> \o SubSeq(f.data, 1, f.can_dlc)

(***************************************************************************)
(* transmitBuffer, the serialisation loop.  body is what lies between      *)
(* packetBuffer + UDP_DATA_PACKET_BASE_SIZE and data; out collects the     *)
(* datagrams sealed so far, each as its frame count and its body.  When    *)
(* the next frame would pass UDP_PAYLOAD_SIZE the datagram is sealed and   *)
(* the frame starts the next one; after the loop the last one is sealed.   *)
(***************************************************************************)
\* (a variant that seals one octet early: >= for >)
PacketOverflow_Early(body, f) ==
  UDP_DATA_PACKET_BASE_SIZE + Len(body) + CANNELLONI_FRAME_BASE_SIZE + f.can_dlc
    >= UDP_PAYLOAD_SIZE

PacketOverflow(body, f) ==
  UDP_DATA_PACKET_BASE_SIZE + Len(body) + CANNELLONI_FRAME_BASE_SIZE + f.can_dlc
    > UDP_PAYLOAD_SIZE

RECURSIVE SerialiseLoop(_, _, _, _, _)
SerialiseLoop(frames, i, body, frameCount, out) ==
  IF i > Len(frames)
  THEN Append(out, [count |-> frameCount, body |-> body])
  ELSE LET frame == frames[i]
           over  == PacketOverflow(body, frame)
           out2  == IF over
                    THEN Append(out, [count |-> frameCount, body |-> body])
                    ELSE out
           body2 == IF over THEN <<>> ELSE body
           cnt2  == IF over THEN 0 ELSE frameCount
       IN SerialiseLoop(frames, i + 1, body2 \o EncodeFrame(frame),
                        cnt2 + 1, out2)

Serialise(frames) == SerialiseLoop(frames, 1, <<>>, 0, <<>>)

(***************************************************************************)
(* UDPThread::run, decoding of one received buffer.  raw is                *)
(* rawData - buffer.  The result is the vector canFrames as it stands when *)
(* the loop is left, and whether the loop was left by an error.            *)
(***************************************************************************)
RECURSIVE DecodeLoop(_, _, _, _)
DecodeLoop(buffer, i, raw, canFrames) ==
  IF i >= CountOf(buffer)
  THEN [canFrames |-> canFrames, error |-> FALSE]
  ELSE IF raw + CANNELLONI_FRAME_BASE_SIZE > Len(buffer)
  THEN [canFrames |-> canFrames, error |-> TRUE]
  ELSE LET can_id  == Ntohl(buffer[raw + 1], buffer[raw + 2],
                            buffer[raw + 3], buffer[raw + 4])
           can_dlc == buffer[raw + 5]
           raw2    == raw + CANNELLONI_FRAME_BASE_SIZE
       IN IF raw2 + can_dlc > Len(buffer)
          THEN [canFrames |-> canFrames, error |-> TRUE]
          ELSE DecodeLoop(buffer, i + 1, raw2 + can_dlc,
                          Append(canFrames,
                                 [can_id  |-> can_id,
                                  can_dlc |-> can_dlc,
                                  data    |-> SubSeq(buffer, raw2 + 1,
                                                     raw2 + can_dlc)]))

\* (a variant without the check of the frame count)
HeaderDrop_NoCount(buffer) ==
  \/ VersionOf(buffer) # CANNELLONI_FRAME_VERSION
  \/ OpCodeOf(buffer) # DATA

\* The three header checks; each sets drop.
HeaderDrop(buffer) ==
  \/ VersionOf(buffer) # CANNELLONI_FRAME_VERSION
  \/ OpCodeOf(buffer) # DATA
  \/ CountOf(buffer) = 0

DecodeFrames(buffer) ==
  DecodeLoop(buffer, 0, UDP_DATA_PACKET_BASE_SIZE, <<>>)

(***************************************************************************)
(* Datagrams that arrive at the UDP socket, and where they come from.      *)
(***************************************************************************)
\* m_remoteAddr: the configured remote, an IPv4 address and a port.
m_remoteAddr == [sin_addr |-> "10.0.0.2", sin_port |-> 20000]

\* The remote itself, the remote's host on another port, another host.
Sources ==
  { m_remoteAddr,
    [sin_addr |-> "10.0.0.2", sin_port |-> 20001],
    [sin_addr |-> "10.0.0.3", sin_port |-> 20000] }

RECURSIVE EncodeFrames(_)
EncodeFrames(frames) ==
  IF frames = <<>> THEN <<>>
  ELSE EncodeFrame(Head(frames)) \o EncodeFrames(Tail(frames))

\* A datagram as a peer builds it.
PeerDatagram(version, op_code, count, frames) ==
  PacketHeader(version, op_code, 0, count) \o EncodeFrames(frames)

PeerBatches == { <<FrameA>>, <<FrameC, FrameB>> }

\* A record whose length octet is 9, followed by 9 octets.
LongRecord == CanFrame(0, 291, <<1, 2, 3, 4, 5, 6, 7, 8, 9>>)

\* Per batch: the well-formed datagram, the same cut by one octet, with one
\* frame more advertised than carried, with a wrong version, with a wrong
\* op code, with a count of zero; the datagram of no octets; and a datagram
\* of one record with a length octet beyond CAN_MAX_DLEN.
RecvInputs ==
  { <<>>,
    PeerDatagram(CANNELLONI_FRAME_VERSION, DATA, 1, <<LongRecord>>) } \cup
  UNION { LET good == PeerDatagram(CANNELLONI_FRAME_VERSION, DATA,
                                   Len(b), b)
          IN { good,
               SubSeq(good, 1, Len(good) - 1),
               PeerDatagram(CANNELLONI_FRAME_VERSION, DATA, Len(b) + 1, b),
               PeerDatagram(0, DATA, Len(b), b),
               PeerDatagram(CANNELLONI_FRAME_VERSION, DATA + 1, Len(b), b),
               PeerDatagram(CANNELLONI_FRAME_VERSION, DATA, 0, b) }
          : b \in PeerBatches }

(***************************************************************************)
(* The state.                                                              *)
(***************************************************************************)
VARIABLES
  \* Thread (of the UDP worker)
  m_started, m_running,
  \* UDPThread
  m_framePool,             \* the number of idle slots in the pool list
  m_totalAllocCount,
  m_frameBuffer,           \* the live buffer: the frames of its slots
  m_frameBuffer_trans,     \* the in-flight buffer
  m_frameBufferSize, m_frameBufferSize_trans,
  m_sequenceNumber, m_rxCount, m_txCount,
  m_poolMutex, m_bufferMutex,      \* "free" or the thread that holds it
  m_udpSocket,             \* "none", "open", "shutdown", "closed"
  m_timerfd,               \* "none", "unarmed", "periodic", "immediate"
  \* CANThread (its members carry the prefix can_)
  can_started, can_running,
  can_frameBuffer,         \* CANThread::m_frameBuffer, the live buffer
  can_frameBuffer_trans,
  can_timerfd,             \* "none", "unarmed", "periodic", "immediate"
  can_socket,              \* m_canSocket: "none", "open", "closed"
  can_txCount, can_rxCount,
  pcCanMain,               \* the main thread, in CANThread::start / stop
  pcCan,                   \* the CAN worker's thread, in CANThread::run
  canReadfds,              \* CANThread::run: the descriptors select reported
  canFrame,                \* CANThread::run: the frame recv stored
  canTxIndex,              \* CANThread::transmitBuffer: the frame to write next
  canHanded,               \* the frames transmitCANFrames was given, in order
  canWritten,              \* the frames passed to write(m_canSocket), in order
  \* where each thread stands
  pcMain,                  \* the main thread, in UDPThread::start / stop
  pcUdp,                   \* the UDP worker's thread
  pcSend,                  \* the CAN worker's thread, in sendCANFrame
  sendFrame,               \* sendCANFrame's argument
  readfds,                 \* run(): the descriptors select reported
  txIndex,                 \* transmitBuffer: the datagram to send next
  \* the environment and the history
  undefined,               \* the program has executed undefined behaviour
  allocGarbage,            \* what m_totalAllocCount held when constructed
  admitted, received, sendFails,
  window,                  \* the admissions so far against the periodic timer
  flushOut,                \* the datagrams the current flush passed to sendto
  swapSnapshot,            \* the live buffer as the current flush swapped it
  lastSeq,                 \* seq_no of the last two datagrams passed to sendto
  lastRx                   \* the last datagram received and what it led to

vars ==
  << m_started, m_running, m_framePool, m_totalAllocCount, m_frameBuffer,
     m_frameBuffer_trans, m_frameBufferSize, m_frameBufferSize_trans,
     m_sequenceNumber, m_rxCount, m_txCount, m_poolMutex, m_bufferMutex,
     m_udpSocket, m_timerfd, can_started, can_running, can_frameBuffer,
     can_frameBuffer_trans, can_timerfd, can_socket, can_txCount,
     can_rxCount, pcCanMain, pcCan, canReadfds, canFrame, canTxIndex,
     canHanded, canWritten, pcMain, pcUdp, pcSend, sendFrame, readfds, txIndex, undefined, allocGarbage, admitted,
     received, sendFails, window, flushOut, swapSnapshot, lastSeq, lastRx >>

threadVars == << m_started, m_running >>

poolVars == << m_framePool, m_totalAllocCount >>

bufferVars ==
  << m_frameBuffer, m_frameBuffer_trans, m_frameBufferSize,
     m_frameBufferSize_trans >>

counterVars == << m_sequenceNumber, m_rxCount, m_txCount >>

canThreadVars == << can_started, can_running >>

canBufVars == << can_frameBuffer, can_frameBuffer_trans, canTxIndex >>

canCountVars == << can_txCount, can_rxCount >>

\* What of the CAN worker the UDP worker's transmitCANFrames leaves alone.
canWorkerVars ==
  << canThreadVars, can_frameBuffer_trans, canTxIndex, canCountVars,
     can_socket, pcCanMain, pcCan, canReadfds, canFrame, canWritten >>

canVars == << can_frameBuffer, can_timerfd, canHanded, canWorkerVars >>

flushVars == << txIndex, flushOut, swapSnapshot, lastSeq >>

envVars == << allocGarbage, admitted, received, sendFails, window >>

NoFrame == [can_id |-> <<0, 0>>, can_dlc |-> 0, data |-> <<>>]

NoRx ==
  [any |-> FALSE, src |-> m_remoteAddr, buffer |-> <<>>, called |-> FALSE,
   handed |-> <<>>]

(***************************************************************************)
(* The constructors: Thread::Thread and UDPThread::UDPThread.  The member  *)
(* initialiser list of UDPThread does not name m_totalAllocCount, so it    *)
(* starts with whatever the storage held.  CANThread::CANThread.           *)
(***************************************************************************)
Init ==
  /\ m_started = FALSE
  /\ m_running = FALSE
  /\ m_framePool = 0
  /\ m_totalAllocCount \in 0 .. MaxGarbage
  /\ allocGarbage = m_totalAllocCount
  /\ m_frameBuffer = <<>>
  /\ m_frameBuffer_trans = <<>>
  /\ m_frameBufferSize = 0
  /\ m_frameBufferSize_trans = 0
  /\ m_sequenceNumber = 0
  /\ m_rxCount = 0
  /\ m_txCount = 0
  /\ m_poolMutex = "free"
  /\ m_bufferMutex = "free"
  /\ m_udpSocket = "none"
  /\ m_timerfd = "none"
  /\ can_started = FALSE
  /\ can_running = FALSE
  /\ can_frameBuffer = <<>>
  /\ can_frameBuffer_trans = <<>>
  /\ can_timerfd = "none"
  /\ can_socket = "none"
  /\ can_txCount = 0
  /\ can_rxCount = 0
  /\ pcCanMain = "new"
  /\ pcCan = "none"
  /\ canReadfds = {}
  /\ canFrame = NoFrame
  /\ canTxIndex = 1
  /\ canHanded = <<>>
  /\ canWritten = <<>>
  /\ pcMain = "new"
  /\ pcUdp = "none"
  /\ pcSend = "idle"
  /\ sendFrame = NoFrame
  /\ readfds = {}
  /\ txIndex = 0
  /\ undefined = FALSE
  /\ admitted = 0
  /\ received = 0
  /\ sendFails = 0
  /\ window = [ticks |-> 0, last |-> 0, size |-> 0]
  /\ flushOut = <<>>
  /\ swapSnapshot = <<>>
  /\ lastSeq = <<>>
  /\ lastRx = NoRx

(***************************************************************************)
(* Undefined behaviour (front() and splice on an empty list) ends the      *)
(* modelled run: nothing is said about what the program does after it.     *)
(***************************************************************************)
Defined == ~undefined

(***************************************************************************)
(* The main thread: UDPThread::start, Thread::start.                       *)
(***************************************************************************)
\* resizePool(size): size new slots at the back of the pool.
ResizedPool(pool, size) == pool + size

ResizedTotal(total, size) == total + size

\* start(): resizePool, then socket / bind / timerfd_create, one of which
\* fails (return -1), ...
UDPStartFails ==
  /\ Defined
  /\ pcMain = "new"
  /\ m_framePool' = ResizedPool(m_framePool, FRAME_POOL_SIZE)
  /\ m_totalAllocCount' = ResizedTotal(m_totalAllocCount, FRAME_POOL_SIZE)
  /\ pcMain' = "failed"
  /\ UNCHANGED << threadVars, bufferVars, counterVars, m_poolMutex,
                  m_bufferMutex, m_udpSocket, m_timerfd, canVars, pcUdp,
                  pcSend, sendFrame, readfds, flushVars, undefined, envVars,
                  lastRx >>

\* ... or all succeed and Thread::start sets m_started and creates the
\* thread that runs privRun.
UDPStart ==
  /\ Defined
  /\ pcMain = "new"
  /\ m_framePool' = ResizedPool(m_framePool, FRAME_POOL_SIZE)
  /\ m_totalAllocCount' = ResizedTotal(m_totalAllocCount, FRAME_POOL_SIZE)
  /\ m_udpSocket' = "open"
  /\ m_timerfd' = "unarmed"
  /\ m_started' = TRUE
  /\ pcUdp' = "run"
  /\ pcMain' = "created"
  /\ UNCHANGED << m_running, bufferVars, counterVars, m_poolMutex,
                  m_bufferMutex, canVars, pcSend, sendFrame, readfds,
                  flushVars, undefined, envVars, lastRx >>

\* Thread::start, after the thread was created: m_running = true.
ThreadStartRunning ==
  /\ Defined
  /\ pcMain = "created"
  /\ m_running' = TRUE
  /\ pcMain' = "started"
  /\ UNCHANGED << m_started, poolVars, bufferVars, counterVars, m_poolMutex,
                  m_bufferMutex, m_udpSocket, m_timerfd, canVars, pcUdp,
                  pcSend, sendFrame, readfds, flushVars, undefined, envVars,
                  lastRx >>

(***************************************************************************)
(* The main thread: UDPThread::stop, Thread::stop, clearPool.              *)
(***************************************************************************)
\* shutdown(m_udpSocket, SHUT_RDWR): the socket reads as at its end and
\* takes no more output.
UDPStopShutdown ==
  /\ Defined
  /\ pcMain = "started"
  /\ m_udpSocket' = "shutdown"
  /\ pcMain' = "shutdown"
  /\ UNCHANGED << threadVars, poolVars, bufferVars, counterVars, m_poolMutex,
                  m_bufferMutex, m_timerfd, canVars, pcUdp, pcSend,
                  sendFrame, readfds, flushVars, undefined, envVars, lastRx >>

\* close(m_udpSocket).
UDPStopClose ==
  /\ Defined
  /\ pcMain = "shutdown"
  /\ m_udpSocket' = "closed"
  /\ pcMain' = "closed"
  /\ UNCHANGED << threadVars, poolVars, bufferVars, counterVars, m_poolMutex,
                  m_bufferMutex, m_timerfd, canVars, pcUdp, pcSend,
                  sendFrame, readfds, flushVars, undefined, envVars, lastRx >>

\* Thread::stop: m_started = false.
ThreadStopFlag ==
  /\ Defined
  /\ pcMain = "closed"
  /\ m_started' = FALSE
  /\ pcMain' = "join"
  /\ UNCHANGED << m_running, poolVars, bufferVars, counterVars, m_poolMutex,
                  m_bufferMutex, m_udpSocket, m_timerfd, canVars, pcUdp,
                  pcSend, sendFrame, readfds, flushVars, undefined, envVars,
                  lastRx >>

\* Thread::stop: m_privThread->join() returns once privRun has returned.
ThreadJoin ==
  /\ Defined
  /\ pcMain = "join"
  /\ pcUdp = "exit"
  /\ pcMain' = "clear"
  /\ UNCHANGED << threadVars, poolVars, bufferVars, counterVars, m_poolMutex,
                  m_bufferMutex, m_udpSocket, m_timerfd, canVars, pcUdp,
                  pcSend, sendFrame, readfds, flushVars, undefined, envVars,
                  lastRx >>

\* clearPool(): deletes the slots of m_framePool, clears it, and resets
\* m_totalAllocCount.  It takes no mutex and touches no buffer.
ClearedPool(pool) == 0

ClearedTotal(total) == 0

UDPStopClearPool ==
  /\ Defined
  /\ pcMain = "clear"
  /\ m_framePool' = ClearedPool(m_framePool)
  /\ m_totalAllocCount' = ClearedTotal(m_totalAllocCount)
  /\ pcMain' = "stopped"
  /\ UNCHANGED << threadVars, bufferVars, counterVars, m_poolMutex,
                  m_bufferMutex, m_udpSocket, m_timerfd, canVars, pcUdp,
                  pcSend, sendFrame, readfds, flushVars, undefined, envVars,
                  lastRx >>

(***************************************************************************)
(* The CAN worker's thread: UDPThread::sendCANFrame(frame).                *)
(***************************************************************************)
\* The history of the admissions, kept where a specification observes it:
\* their accumulated wire size, the periodic expiries of the timer that the
\* worker has read since the first of them (ticks), and how many of these
\* it had read when the last frame was admitted (last).
WindowAdmit(w, frame) ==
  [ticks |-> w.ticks, last |-> w.ticks,
   size |-> w.size + CANNELLONI_FRAME_BASE_SIZE + frame.can_dlc]

WindowTick(w) ==
  IF w.size > 0 /\ w.ticks < MaxTicks
  THEN [w EXCEPT !.ticks = w.ticks + 1] ELSE w

\* m_poolMutex.lock(); if the pool is empty, resizePool(m_totalAllocCount);
\* poolFrame = m_framePool.front(); memcpy.  front() of a list that is
\* still empty is undefined.
SendCall(frame, observe) ==
  /\ Defined
  /\ pcSend = "idle"
  /\ m_poolMutex = "free"
  /\ admitted' = admitted + 1
  /\ window' = IF observe THEN WindowAdmit(window, frame) ELSE window
  /\ LET grow  == m_framePool = 0
         pool  == IF grow THEN ResizedPool(m_framePool, m_totalAllocCount)
                  ELSE m_framePool
         total == IF grow
                  THEN ResizedTotal(m_totalAllocCount, m_totalAllocCount)
                  ELSE m_totalAllocCount
     IN /\ m_framePool' = pool
        /\ m_totalAllocCount' = total
        /\ IF pool = 0
           THEN /\ undefined' = TRUE
                /\ UNCHANGED << m_poolMutex, pcSend, sendFrame >>
           ELSE /\ undefined' = FALSE
                /\ m_poolMutex' = "can"
                /\ sendFrame' = frame
                /\ pcSend' = "lockBuffer"
  /\ UNCHANGED << threadVars, bufferVars, counterVars, m_bufferMutex,
                  m_udpSocket, m_timerfd, canVars, pcMain, pcUdp, readfds,
                  flushVars, allocGarbage, received, sendFails, lastRx >>

\* m_bufferMutex.lock(); splice the pool's first slot to the end of
\* m_frameBuffer; m_poolMutex.unlock().  clearPool may have emptied the pool
\* since front() was taken: splicing begin() of an empty list is undefined.
SendSplice ==
  /\ Defined
  /\ pcSend = "lockBuffer"
  /\ m_bufferMutex = "free"
  /\ IF m_framePool = 0
     THEN /\ undefined' = TRUE
          /\ UNCHANGED << m_framePool, m_frameBuffer, m_poolMutex,
                          m_bufferMutex, pcSend >>
     ELSE /\ undefined' = FALSE
          /\ m_bufferMutex' = "can"
          /\ m_frameBuffer' = Append(m_frameBuffer, sendFrame)
          /\ m_framePool' = m_framePool - 1
          /\ m_poolMutex' = "free"
          /\ pcSend' = "account"
  /\ UNCHANGED << threadVars, m_totalAllocCount, m_frameBuffer_trans,
                  m_frameBufferSize, m_frameBufferSize_trans, counterVars,
                  m_udpSocket, m_timerfd, canVars, pcMain, pcUdp, sendFrame,
                  readfds, flushVars, envVars, lastRx >>

\* UDPThread::fireTimer: it_value of 1000 ns, it_interval kept.  Without a
\* timer descriptor timerfd_settime fails and changes nothing.
FiredTimer(timerfd) == IF timerfd = "none" THEN "none" ELSE "immediate"

\* m_frameBufferSize += ...; fireTimer() at the ceiling;
\* m_bufferMutex.unlock().
SendAccount ==
  /\ Defined
  /\ pcSend = "account"
  /\ m_frameBufferSize' = AddFrameSize(m_frameBufferSize, sendFrame)
  /\ m_timerfd' = IF SizeTrigger(m_frameBufferSize')
                  THEN FiredTimer(m_timerfd) ELSE m_timerfd
  /\ m_bufferMutex' = "free"
  /\ pcSend' = "idle"
  /\ sendFrame' = NoFrame
  /\ UNCHANGED << threadVars, poolVars, m_frameBuffer, m_frameBuffer_trans,
                  m_frameBufferSize_trans, counterVars, m_poolMutex,
                  m_udpSocket, canVars, pcMain, pcUdp, readfds, flushVars,
                  undefined, envVars, lastRx >>

(***************************************************************************)
(* The UDP worker's thread: Thread::privRun, UDPThread::run.               *)
(***************************************************************************)
\* run(), before the loop: the timer is armed with period m_timeout.
RunArmTimer ==
  /\ Defined
  /\ pcUdp = "run"
  /\ m_timerfd' = "periodic"
  /\ pcUdp' = "loop"
  /\ UNCHANGED << threadVars, poolVars, bufferVars, counterVars, m_poolMutex,
                  m_bufferMutex, m_udpSocket, canVars, pcMain, pcSend,
                  sendFrame, readfds, flushVars, undefined, envVars, lastRx >>

\* while (m_started)
RunLoopTest ==
  /\ Defined
  /\ pcUdp = "loop"
  /\ pcUdp' = IF m_started THEN "select" ELSE "return"
  /\ UNCHANGED << threadVars, poolVars, bufferVars, counterVars, m_poolMutex,
                  m_bufferMutex, m_udpSocket, m_timerfd, canVars, pcMain,
                  pcSend, sendFrame, readfds, flushVars, undefined, envVars,
                  lastRx >>

\* select() returns with the descriptors fds readable: the timer when it is
\* armed (its period, or the 1000 ns of fireTimer, has passed), the socket
\* when a datagram waits.  A socket that was shut down is readable (at its
\* end), and shutdown() wakes a select that waits on it; the select that
\* returns after close() is one that was woken so.
RunSelect(fds) ==
  /\ Defined
  /\ pcUdp = "select"
  /\ fds # {}
  /\ "timer" \in fds => m_timerfd \in {"periodic", "immediate"}
  /\ "sock" \in fds => m_udpSocket \in {"open", "shutdown", "closed"}
  /\ m_udpSocket \in {"shutdown", "closed"} => "sock" \in fds
  /\ readfds' = fds
  /\ pcUdp' = "timer"
  /\ UNCHANGED << threadVars, poolVars, bufferVars, counterVars, m_poolMutex,
                  m_bufferMutex, m_udpSocket, m_timerfd, canVars, pcMain,
                  pcSend, sendFrame, flushVars, undefined, envVars, lastRx >>

\* select() < 0 (called on the socket stop has closed): break.
RunSelectError ==
  /\ Defined
  /\ pcUdp = "select"
  /\ m_udpSocket = "closed"
  /\ pcUdp' = "return"
  /\ UNCHANGED << threadVars, poolVars, bufferVars, counterVars, m_poolMutex,
                  m_bufferMutex, m_udpSocket, m_timerfd, canVars, pcMain,
                  pcSend, sendFrame, readfds, flushVars, undefined, envVars,
                  lastRx >>

\* select() < 0 with the descriptors in order (EINTR, a signal was
\* delivered to the thread): break, as for any other error.
RunSelectInterrupted ==
  /\ Defined
  /\ pcUdp = "select"
  /\ m_udpSocket = "open"
  /\ pcUdp' = "return"
  /\ UNCHANGED << threadVars, poolVars, bufferVars, counterVars, m_poolMutex,
                  m_bufferMutex, m_udpSocket, m_timerfd, canVars, pcMain,
                  pcSend, sendFrame, readfds, flushVars, undefined, envVars,
                  lastRx >>

\* if (FD_ISSET(m_timerfd)): read the expirations; numExp >= 1 since the
\* timer was readable; if (m_frameBufferSize) transmitBuffer().  The read
\* of m_frameBufferSize takes no mutex.
\* (a variant that flushes on every expiry)
FlushWanted_Always(size) == TRUE

FlushWanted(size) == size # 0

RunTimer(observe) ==
  /\ Defined
  /\ pcUdp = "timer"
  /\ IF "timer" \in readfds
     THEN /\ m_timerfd' = "periodic"
          /\ pcUdp' = IF FlushWanted(m_frameBufferSize)
                      THEN "swap" ELSE "socket"
          /\ window' = IF observe /\ m_timerfd = "periodic"
                       THEN WindowTick(window) ELSE window
     ELSE /\ pcUdp' = "socket"
          /\ UNCHANGED << m_timerfd, window >>
  /\ UNCHANGED << threadVars, poolVars, bufferVars, counterVars, m_poolMutex,
                  m_bufferMutex, m_udpSocket, canVars, pcMain, pcSend,
                  sendFrame, readfds, flushVars, undefined, allocGarbage,
                  admitted, received, sendFails, lastRx >>

(***************************************************************************)
(* UDPThread::transmitBuffer.                                              *)
(***************************************************************************)
\* (a variant that leaves the swap without unlocking)
SwapUnlock_Kept(holder) == holder

\* m_bufferMutex.unlock() after the swap: the mutex as the thread that held
\* it leaves it.
SwapUnlock(holder) == "free"

\* Under m_bufferMutex: swap the sizes and the buffers.
TransmitSwap ==
  /\ Defined
  /\ pcUdp = "swap"
  /\ m_bufferMutex = "free"
  /\ m_frameBufferSize' = m_frameBufferSize_trans
  /\ m_frameBufferSize_trans' = m_frameBufferSize
  /\ m_frameBuffer' = m_frameBuffer_trans
  /\ m_frameBuffer_trans' = m_frameBuffer
  /\ m_bufferMutex' = SwapUnlock("udp")
  /\ swapSnapshot' = m_frameBuffer
  /\ flushOut' = <<>>
  /\ pcUdp' = "sort"
  /\ UNCHANGED << threadVars, poolVars, counterVars, m_poolMutex,
                  m_udpSocket, m_timerfd, canVars, pcMain,
                  pcSend, sendFrame, readfds, txIndex, lastSeq, undefined,
                  envVars, lastRx >>

\* m_frameBuffer_trans->sort(can_frame_comp()).
TransmitSort ==
  /\ Defined
  /\ pcUdp = "sort"
  /\ m_frameBuffer_trans' = SortFrames(m_frameBuffer_trans)
  /\ txIndex' = 1
  /\ pcUdp' = "send"
  /\ UNCHANGED << threadVars, poolVars, m_frameBuffer, m_frameBufferSize,
                  m_frameBufferSize_trans, counterVars, m_poolMutex,
                  m_bufferMutex, m_udpSocket, m_timerfd, canVars, pcMain,
                  pcSend, sendFrame, readfds, flushOut, swapSnapshot, lastSeq,
                  undefined, envVars, lastRx >>

\* (a variant whose counter is wider than the octet it is sent in)
NextSequenceNumber_Wide(seq) == seq + 1

\* dataPacket->seq_no = m_sequenceNumber++, in one octet.
NextSequenceNumber(seq) == (seq + 1) % SEQ_MODULUS

\* (a variant that counts every sendto)
TxCounted_Always(txCount, ok) == txCount + 1

\* if (transmittedBytes != data-packetBuffer) ... else m_txCount++.
TxCounted(txCount, ok) == IF ok THEN txCount + 1 ELSE txCount

\* The header written when a datagram is sealed.
SealedDatagram(seq, sealed) ==
  PacketHeader(CANNELLONI_FRAME_VERSION, DATA, seq, sealed.count)
    \o sealed.body

\* One sendto: the txIndex-th datagram of the loop, or the last one after
\* it.  ok: sendto wrote the whole datagram; on a socket that was shut down
\* or closed it fails.
TransmitSend(ok) ==
  /\ Defined
  /\ pcUdp = "send"
  /\ ok => m_udpSocket = "open"
  /\ LET sealed == Serialise(m_frameBuffer_trans)
         packet == SealedDatagram(m_sequenceNumber, sealed[txIndex])
     IN /\ flushOut' = Append(flushOut, packet)
        /\ lastSeq' = IF lastSeq = <<>> THEN << SeqNoOf(packet) >>
                      ELSE << lastSeq[Len(lastSeq)], SeqNoOf(packet) >>
        /\ m_sequenceNumber' = NextSequenceNumber(m_sequenceNumber)
        /\ m_txCount' = TxCounted(m_txCount, ok)
        /\ IF txIndex = Len(sealed)
           THEN pcUdp' = "return_slots" /\ txIndex' = 0
           ELSE pcUdp' = "send" /\ txIndex' = txIndex + 1
  /\ sendFails' = IF ok \/ m_udpSocket # "open" THEN sendFails
                  ELSE sendFails + 1
  /\ UNCHANGED << threadVars, poolVars, bufferVars, m_rxCount, m_poolMutex,
                  m_bufferMutex, m_udpSocket, m_timerfd, canVars, pcMain,
                  pcSend, sendFrame, readfds, swapSnapshot, undefined,
                  allocGarbage, admitted, received, window, lastRx >>

\* Under m_poolMutex: m_framePool.merge(*m_frameBuffer_trans);
\* m_frameBufferSize_trans = 0.
TransmitReturn ==
  /\ Defined
  /\ pcUdp = "return_slots"
  /\ m_poolMutex = "free"
  /\ m_framePool' = m_framePool + Len(m_frameBuffer_trans)
  /\ m_frameBuffer_trans' = <<>>
  /\ m_frameBufferSize_trans' = 0
  /\ pcUdp' = "socket"
  /\ UNCHANGED << threadVars, m_totalAllocCount, m_frameBuffer,
                  m_frameBufferSize, counterVars, m_poolMutex, m_bufferMutex,
                  m_udpSocket, m_timerfd, canVars, pcMain, pcSend, sendFrame,
                  readfds, flushVars, undefined, envVars, lastRx >>

(***************************************************************************)
(* UDPThread::run, the socket branch.                                      *)
(***************************************************************************)
\* (a variant without the check of the source)
AcceptSource_Any(clientAddr) == TRUE

\* memcmp of sin_addr with m_remoteAddr.sin_addr.
AcceptSource(clientAddr) == clientAddr.sin_addr = m_remoteAddr.sin_addr

\* memcpy(frame.data, rawData, frame.can_dlc) into the CAN_MAX_DLEN octets
\* of frame.data: with a larger can_dlc it writes past the field, which is
\* undefined.
CopyOverflows(decoded) ==
  \E k \in 1 .. Len(decoded.canFrames) :
    decoded.canFrames[k].can_dlc > CAN_MAX_DLEN

\* (a variant that inserts at the front)
CanAppended_Front(buffer, frames) == frames \o buffer

\* CANThread::transmitCANFrames, under the CAN worker's m_bufferMutex:
\* m_frameBuffer->insert(m_frameBuffer->end(), frames.begin(), frames.end()).
CanAppended(buffer, frames) == buffer \o frames

\* CANThread::fireTimer: it_value of 1000 ns, it_interval CAN_TIMEOUT.
CanFiredTimer(timerfd) == IF timerfd = "none" THEN "none" ELSE "immediate"

\* What is handed to m_canThread->transmitCANFrames after the loop.
HandedFrames(decoded) == decoded.canFrames

\* if (!drop) m_rxCount++.
RxCounted(rxCount) == rxCount + 1

\* if (!FD_ISSET(m_udpSocket)): next iteration.
RunSocketSkip ==
  /\ Defined
  /\ pcUdp = "socket"
  /\ "sock" \notin readfds
  /\ pcUdp' = "loop"
  /\ readfds' = {}
  /\ UNCHANGED << threadVars, poolVars, bufferVars, counterVars, m_poolMutex,
                  m_bufferMutex, m_udpSocket, m_timerfd, canVars, pcMain,
                  pcSend, sendFrame, flushVars, undefined, envVars, lastRx >>

\* recvfrom() < 0 (the socket was closed meanwhile): return.
RunRecvError ==
  /\ Defined
  /\ pcUdp = "socket"
  /\ "sock" \in readfds
  /\ m_udpSocket = "closed"
  /\ pcUdp' = "return"
  /\ readfds' = {}
  /\ UNCHANGED << threadVars, poolVars, bufferVars, counterVars, m_poolMutex,
                  m_bufferMutex, m_udpSocket, m_timerfd, canVars, pcMain,
                  pcSend, sendFrame, flushVars, undefined, envVars, lastRx >>

\* recvfrom() == 0 on the socket that was shut down: nothing to process,
\* next iteration.
RunRecvEof ==
  /\ Defined
  /\ pcUdp = "socket"
  /\ "sock" \in readfds
  /\ m_udpSocket = "shutdown"
  /\ pcUdp' = "loop"
  /\ readfds' = {}
  /\ UNCHANGED << threadVars, poolVars, bufferVars, counterVars, m_poolMutex,
                  m_bufferMutex, m_udpSocket, m_timerfd, canVars, pcMain,
                  pcSend, sendFrame, flushVars, undefined, envVars, lastRx >>

\* recvfrom() returns buffer, sent by clientAddr.  CANThread::
\* transmitCANFrames appends the frames to the CAN worker's live buffer and
\* fires its timer.
RunRecv(buffer, clientAddr) ==
  /\ Defined
  /\ pcUdp = "socket"
  /\ "sock" \in readfds
  /\ m_udpSocket = "open"
  /\ received' = received + 1
  /\ pcUdp' = "loop"
  /\ readfds' = {}
  /\ LET process == /\ Len(buffer) > 0
                    /\ AcceptSource(clientAddr)
                    /\ ~HeaderDrop(buffer)
         frames  == HandedFrames(DecodeFrames(buffer))
     IN IF process
        THEN /\ m_rxCount' = RxCounted(m_rxCount)
             /\ undefined' = CopyOverflows(DecodeFrames(buffer))
             /\ can_frameBuffer' = CanAppended(can_frameBuffer, frames)
             /\ can_timerfd' = CanFiredTimer(can_timerfd)
             /\ canHanded' = canHanded \o frames
             /\ UNCHANGED canWorkerVars
             /\ lastRx' = [any |-> TRUE, src |-> clientAddr,
                           buffer |-> buffer, called |-> TRUE,
                           handed |-> frames]
        ELSE /\ lastRx' = [any |-> TRUE, src |-> clientAddr,
                           buffer |-> buffer, called |-> FALSE,
                           handed |-> <<>>]
             /\ UNCHANGED << m_rxCount, canVars, undefined >>
  /\ UNCHANGED << threadVars, poolVars, bufferVars, m_sequenceNumber,
                  m_txCount, m_poolMutex, m_bufferMutex, m_udpSocket,
                  m_timerfd, pcMain, pcSend, sendFrame, flushVars,
                  allocGarbage, admitted, sendFails, window >>

\* Thread::privRun, after run() returned.
PrivRunEnd ==
  /\ Defined
  /\ pcUdp = "return"
  /\ m_running' = FALSE
  /\ m_started' = FALSE
  /\ pcUdp' = "exit"
  /\ UNCHANGED << poolVars, bufferVars, counterVars, m_poolMutex,
                  m_bufferMutex, m_udpSocket, m_timerfd, canVars, pcMain,
                  pcSend, sendFrame, readfds, flushVars, undefined, envVars,
                  lastRx >>

(***************************************************************************)
(* The CAN worker: CANThread::start and CANThread::stop on the main        *)
(* thread, CANThread::run and CANThread::transmitBuffer on its own thread. *)
(***************************************************************************)
\* All that belongs to the UDP worker.
udpVars ==
  << threadVars, poolVars, bufferVars, counterVars, m_poolMutex,
     m_bufferMutex, m_udpSocket, m_timerfd, pcMain, pcUdp, pcSend, sendFrame,
     readfds, flushVars, undefined, envVars, lastRx >>

\* start(): socket, ioctl, bind or timerfd_create fails (return -1), ...
CANStartFails ==
  /\ Defined
  /\ pcCanMain = "new"
  /\ pcCanMain' = "failed"
  /\ UNCHANGED << udpVars, canThreadVars, canBufVars, canCountVars,
                  can_timerfd, can_socket, pcCan, canReadfds, canFrame,
                  canHanded, canWritten >>

\* ... or all succeed, and Thread::start sets m_started and creates the
\* thread.
CANStart ==
  /\ Defined
  /\ pcCanMain = "new"
  /\ can_socket' = "open"
  /\ can_timerfd' = "unarmed"
  /\ can_started' = TRUE
  /\ pcCan' = "run"
  /\ pcCanMain' = "created"
  /\ UNCHANGED << udpVars, can_running, canBufVars, canCountVars, canReadfds,
                  canFrame, canHanded, canWritten >>

\* Thread::start, after the thread was created: m_running = true.
CANStartRunning ==
  /\ Defined
  /\ pcCanMain = "created"
  /\ can_running' = TRUE
  /\ pcCanMain' = "started"
  /\ UNCHANGED << udpVars, can_started, canBufVars, canCountVars, can_timerfd,
                  can_socket, pcCan, canReadfds, canFrame, canHanded,
                  canWritten >>

\* stop(): shutdown(m_canSocket), which a raw CAN socket does not support
\* and which wakes nobody, and fireTimer().
CANStopFire ==
  /\ Defined
  /\ pcCanMain = "started"
  /\ can_timerfd' = CanFiredTimer(can_timerfd)
  /\ pcCanMain' = "fired"
  /\ UNCHANGED << udpVars, canThreadVars, canBufVars, canCountVars,
                  can_socket, pcCan, canReadfds, canFrame, canHanded,
                  canWritten >>

\* close(m_canSocket).
CANStopClose ==
  /\ Defined
  /\ pcCanMain = "fired"
  /\ can_socket' = "closed"
  /\ pcCanMain' = "closed"
  /\ UNCHANGED << udpVars, canThreadVars, canBufVars, canCountVars,
                  can_timerfd, pcCan, canReadfds, canFrame, canHanded,
                  canWritten >>

\* Thread::stop: m_started = false.
CANStopFlag ==
  /\ Defined
  /\ pcCanMain = "closed"
  /\ can_started' = FALSE
  /\ pcCanMain' = "join"
  /\ UNCHANGED << udpVars, can_running, canBufVars, canCountVars, can_timerfd,
                  can_socket, pcCan, canReadfds, canFrame, canHanded,
                  canWritten >>

\* Thread::stop: join() returns once privRun has returned.
CANJoin ==
  /\ Defined
  /\ pcCanMain = "join"
  /\ pcCan = "exit"
  /\ pcCanMain' = "stopped"
  /\ UNCHANGED << udpVars, canThreadVars, canBufVars, canCountVars,
                  can_timerfd, can_socket, pcCan, canReadfds, canFrame,
                  canHanded, canWritten >>

\* run(), before the loop: the timer is armed with period CAN_TIMEOUT.
CanRunArmTimer ==
  /\ Defined
  /\ pcCan = "run"
  /\ can_timerfd' = "periodic"
  /\ pcCan' = "loop"
  /\ UNCHANGED << udpVars, canThreadVars, canBufVars, canCountVars,
                  can_socket, pcCanMain, canReadfds, canFrame, canHanded,
                  canWritten >>

\* while (m_started)
CanLoopTest ==
  /\ Defined
  /\ pcCan = "loop"
  /\ pcCan' = IF can_started THEN "select" ELSE "return"
  /\ UNCHANGED << udpVars, canThreadVars, canBufVars, canCountVars,
                  can_timerfd, can_socket, pcCanMain, canReadfds, canFrame,
                  canHanded, canWritten >>

\* select() is called: on the descriptor stop has closed it returns -1 at
\* once (break); otherwise the thread waits.
CanSelectEnter ==
  /\ Defined
  /\ pcCan = "select"
  /\ pcCan' = IF can_socket = "closed" THEN "return" ELSE "blocked"
  /\ UNCHANGED << udpVars, canThreadVars, canBufVars, canCountVars,
                  can_timerfd, can_socket, pcCanMain, canReadfds, canFrame,
                  canHanded, canWritten >>

\* select() returns with fds readable: the timer when it is armed and has
\* expired, the socket when the bus has a frame.  The close of the socket
\* does not end a select that waits on it.
CanSelectReturn(fds) ==
  /\ Defined
  /\ pcCan = "blocked"
  /\ fds # {}
  /\ "timer" \in fds => can_timerfd \in {"periodic", "immediate"}
  /\ "sock" \in fds => can_socket = "open"
  /\ canReadfds' = fds
  /\ pcCan' = "timer"
  /\ UNCHANGED << udpVars, canThreadVars, canBufVars, canCountVars,
                  can_timerfd, can_socket, pcCanMain, canFrame, canHanded,
                  canWritten >>

\* (a variant whose timer has no interval: it expires once)
CanTimerRead_OneShot(timerfd) == "unarmed"

\* The timer once its expirations were read: it_interval is CAN_TIMEOUT, in
\* run() as in fireTimer(), so the timer stays armed.
CanTimerRead(timerfd) == "periodic"

\* if (FD_ISSET(m_timerfd)): read the expirations (numExp >= 1, the timer
\* was readable) and transmitBuffer().
CanTimer ==
  /\ Defined
  /\ pcCan = "timer"
  /\ IF "timer" \in canReadfds
     THEN /\ can_timerfd' = CanTimerRead(can_timerfd)
          /\ pcCan' = "swap"
     ELSE /\ pcCan' = "socket"
          /\ UNCHANGED can_timerfd
  /\ UNCHANGED << udpVars, canThreadVars, canBufVars, canCountVars,
                  can_socket, pcCanMain, canReadfds, canFrame, canHanded,
                  canWritten >>

\* CANThread::transmitBuffer, under m_bufferMutex: swap the buffers.
CanTransmitSwap ==
  /\ Defined
  /\ pcCan = "swap"
  /\ can_frameBuffer' = can_frameBuffer_trans
  /\ can_frameBuffer_trans' = can_frameBuffer
  /\ canTxIndex' = 1
  /\ pcCan' = "write"
  /\ UNCHANGED << udpVars, canThreadVars, canCountVars, can_timerfd,
                  can_socket, pcCanMain, canReadfds, canFrame, canHanded,
                  canWritten >>

\* if (transmittedBytes != sizeof(frame)) ... else m_txCount++.
CanTxCounted(txCount, ok) == IF ok THEN txCount + 1 ELSE txCount

\* One turn of the loop: write(m_canSocket, &frame, sizeof(frame)); on the
\* closed socket it fails.
CanWrite ==
  /\ Defined
  /\ pcCan = "write"
  /\ canTxIndex <= Len(can_frameBuffer_trans)
  /\ canWritten' = Append(canWritten, can_frameBuffer_trans[canTxIndex])
  /\ can_txCount' = CanTxCounted(can_txCount, can_socket = "open")
  /\ canTxIndex' = canTxIndex + 1
  /\ UNCHANGED << udpVars, canThreadVars, can_frameBuffer,
                  can_frameBuffer_trans, can_rxCount, can_timerfd, can_socket,
                  pcCanMain, pcCan, canReadfds, canFrame, canHanded >>

\* After the loop: m_frameBuffer_trans->clear().
CanTransmitClear ==
  /\ Defined
  /\ pcCan = "write"
  /\ canTxIndex > Len(can_frameBuffer_trans)
  /\ can_frameBuffer_trans' = <<>>
  /\ canTxIndex' = 1
  /\ pcCan' = "socket"
  /\ UNCHANGED << udpVars, canThreadVars, can_frameBuffer, canCountVars,
                  can_timerfd, can_socket, pcCanMain, canReadfds, canFrame,
                  canHanded, canWritten >>

\* if (!FD_ISSET(m_canSocket)): next iteration.
CanSocketSkip ==
  /\ Defined
  /\ pcCan = "socket"
  /\ "sock" \notin canReadfds
  /\ canReadfds' = {}
  /\ pcCan' = "loop"
  /\ UNCHANGED << udpVars, canThreadVars, canBufVars, canCountVars,
                  can_timerfd, can_socket, pcCanMain, canFrame, canHanded,
                  canWritten >>

\* recv() < 0 with an errno other than EAGAIN (the socket was closed
\* meanwhile): return.
CanRecvError ==
  /\ Defined
  /\ pcCan = "socket"
  /\ "sock" \in canReadfds
  /\ can_socket = "closed"
  /\ canReadfds' = {}
  /\ pcCan' = "return"
  /\ UNCHANGED << udpVars, canThreadVars, canBufVars, canCountVars,
                  can_timerfd, can_socket, pcCanMain, canFrame, canHanded,
                  canWritten >>

\* recv() returns a whole frame: m_rxCount++, and sendCANFrame(frame) is
\* called on the UDP worker.
CanRecvFrame(frame) ==
  /\ Defined
  /\ pcCan = "socket"
  /\ "sock" \in canReadfds
  /\ can_socket = "open"
  /\ can_rxCount' = can_rxCount + 1
  /\ canFrame' = frame
  /\ canReadfds' = {}
  /\ pcCan' = "call"
  /\ UNCHANGED << udpVars, canThreadVars, canBufVars, can_txCount,
                  can_timerfd, can_socket, pcCanMain, canHanded, canWritten >>

\* sendCANFrame has returned: next iteration.
CanCallReturn ==
  /\ Defined
  /\ pcCan = "call"
  /\ pcSend = "idle"
  /\ admitted = can_rxCount
  /\ pcCan' = "loop"
  /\ UNCHANGED << udpVars, canThreadVars, canBufVars, canCountVars,
                  can_timerfd, can_socket, pcCanMain, canReadfds, canFrame,
                  canHanded, canWritten >>

\* Thread::privRun, after run() returned.
CanPrivRunEnd ==
  /\ Defined
  /\ pcCan = "return"
  /\ can_running' = FALSE
  /\ can_started' = FALSE
  /\ pcCan' = "exit"
  /\ UNCHANGED << udpVars, canBufVars, canCountVars, can_timerfd, can_socket,
                  pcCanMain, canReadfds, canFrame, canHanded, canWritten >>

(***************************************************************************)
(* The threads.  The environment is a parameter of each: the frames the    *)
(* bus offers and how many, whether the socket ever has a datagram, how    *)
(* many sendto calls fail on an open socket.                               *)
(***************************************************************************)
MainStart ==
  \/ UDPStart
  \/ UDPStartFails
  \/ ThreadStartRunning

MainStop ==
  \/ UDPStopShutdown
  \/ UDPStopClose
  \/ ThreadStopFlag
  \/ ThreadJoin
  \/ UDPStopClearPool

MainThread == MainStart \/ MainStop

CanThread(busFrames, maxAdmit, maxBacklog, observe) ==
  \/ \E frame \in busFrames :
       /\ admitted < maxAdmit
       /\ Len(m_frameBuffer) + Len(m_frameBuffer_trans) < maxBacklog
       /\ SendCall(frame, observe)
  \/ SendSplice
  \/ SendAccount

ReadySets == (SUBSET {"timer", "sock"}) \ {{}}

\* The steps of run() while nobody stops the worker ...
UdpLoop(maxRecv, observe) ==
  \/ RunArmTimer
  \/ RunLoopTest
  \/ \E fds \in ReadySets :
       /\ ("sock" \in fds /\ m_udpSocket = "open") => received < maxRecv
       /\ RunSelect(fds)
  \/ RunTimer(observe)
  \/ TransmitSwap
  \/ TransmitSort
  \/ \E ok \in BOOLEAN :
       /\ (~ok /\ m_udpSocket = "open") => sendFails < MaxSendFail
       /\ TransmitSend(ok)
  \/ TransmitReturn
  \/ RunSocketSkip

\* ... and with those that follow a stop.
UdpThreadUpTo(maxRecv, observe) ==
  \/ UdpLoop(maxRecv, observe)
  \/ RunSelectError
  \/ RunRecvEof
  \/ RunRecvError
  \/ PrivRunEnd

UdpThread(peerSends, observe) ==
  UdpThreadUpTo(IF peerSends THEN MaxRecv ELSE 0, observe)

UdpReceive ==
  \E buffer \in RecvInputs, clientAddr \in Sources :
    RunRecv(buffer, clientAddr)

(***************************************************************************)
(* Spec: the outbound direction.  The bus offers MaxAdmit frames out of    *)
(* Frames; the peer is silent.                                             *)
(***************************************************************************)
Next ==
  \/ MainThread
  \/ CanThread(Frames, MaxAdmit, MaxAdmit, FALSE)
  \/ UdpThread(FALSE, FALSE)

Spec == Init /\ [][Next]_vars

(***************************************************************************)
(* SpecRx: the inbound direction.  The peer and two strangers send         *)
(* MaxRecv datagrams out of RecvInputs; the bus offers one frame.          *)
(***************************************************************************)
NextRx ==
  \/ MainThread
  \/ CanThread({FrameA}, 1, 1, FALSE)
  \/ UdpThread(TRUE, FALSE)
  \/ UdpReceive

SpecRx == Init /\ [][NextRx]_vars

(***************************************************************************)
(* SpecWrap: the outbound direction over WrapAdmit frames, each offered    *)
(* once the one before it has been flushed, so that the sequence number    *)
(* passes 255.  The worker is started and is not stopped.                  *)
(***************************************************************************)
NextWrap ==
  \/ MainStart
  \/ CanThread({FrameC}, WrapAdmit, 1, FALSE)
  \/ UdpLoop(0, FALSE)

SpecWrap == Init /\ [][NextWrap]_vars

(***************************************************************************)
(* SpecLife: the outbound direction, with a select that a signal may       *)
(* interrupt at any time, so that run() can return at any point of start   *)
(* and stop.                                                               *)
(***************************************************************************)
NextLife ==
  \/ MainThread
  \/ CanThread(Frames, MaxAdmit, MaxAdmit, FALSE)
  \/ UdpThread(FALSE, FALSE)
  \/ RunSelectInterrupted

SpecLife == Init /\ [][NextLife]_vars

(***************************************************************************)
(* SpecWin: the outbound direction with the admissions observed against    *)
(* the periodic timer.  The bus offers WinAdmit frames that fit one        *)
(* datagram together.                                                      *)
(***************************************************************************)
WinFrames == {FrameA, FrameC}

NextWin ==
  \/ MainThread
  \/ CanThread(WinFrames, WinAdmit, WinAdmit, TRUE)
  \/ UdpThread(FALSE, TRUE)

SpecWin == Init /\ [][NextWin]_vars

(***************************************************************************)
(* SpecCan: both workers.  The main thread starts the UDP worker, then the *)
(* CAN worker, and stops the CAN worker before the UDP worker, so that     *)
(* sendCANFrame is never called on a pool that was not sized or that       *)
(* clearPool has emptied.  The peer sends MaxRecv well-formed datagrams    *)
(* from the configured remote; the bus delivers CanAdmit frames.           *)
(***************************************************************************)
CanMain ==
  \/ CANStartFails
  \/ pcMain = "started" /\ CANStart
  \/ CANStartRunning
  \/ CANStopFire
  \/ CANStopClose
  \/ CANStopFlag
  \/ CANJoin

CanWorker ==
  \/ CanRunArmTimer
  \/ CanLoopTest
  \/ CanSelectEnter
  \/ \E fds \in ReadySets :
       /\ "sock" \in fds => can_rxCount < CanAdmit
       /\ CanSelectReturn(fds)
  \/ CanTimer
  \/ CanTransmitSwap
  \/ CanWrite
  \/ CanTransmitClear
  \/ CanSocketSkip
  \/ CanRecvError
  \/ CanRecvFrame(FrameA)
  \/ pcCan = "call" /\ admitted < can_rxCount /\ SendCall(canFrame, FALSE)
  \/ SendSplice
  \/ SendAccount
  \/ CanCallReturn
  \/ CanPrivRunEnd

UdpReceiveGood ==
  \E b \in PeerBatches :
    RunRecv(PeerDatagram(CANNELLONI_FRAME_VERSION, DATA, Len(b), b),
            m_remoteAddr)

UdpWorker == UdpThread(TRUE, FALSE) \/ UdpReceiveGood

BothMain ==
  \/ MainStart
  \/ pcCanMain \in {"stopped", "failed"} /\ MainStop
  \/ CanMain

NextCan == BothMain \/ CanWorker \/ UdpWorker

SpecCan == Init /\ [][NextCan]_vars

(***************************************************************************)
(* SpecStop: both workers as in SpecCan, the peer sending StopRecv         *)
(* datagrams, and each thread that can take a step eventually taking one.  *)
(***************************************************************************)
UdpWorkerStop == UdpThreadUpTo(StopRecv, FALSE) \/ UdpReceiveGood

NextStop == BothMain \/ CanWorker \/ UdpWorkerStop

SpecStop ==
  /\ Init /\ [][NextStop]_vars
  /\ WF_vars(BothMain)
  /\ WF_vars(CanWorker)
  /\ WF_vars(UdpWorkerStop)

(***************************************************************************)
(*                              The claims                                 *)
(***************************************************************************)

\* The octets one frame takes on the wire: the record header and the payload.
RecordSize(f) == CANNELLONI_FRAME_BASE_SIZE + f.can_dlc

RECURSIVE WireSize(_)
WireSize(frames) ==
  IF frames = <<>> THEN 0
  ELSE RecordSize(Head(frames)) + WireSize(Tail(frames))

\* Neither sendCANFrame nor transmitBuffer is being executed.
Quiescent ==
  /\ pcSend = "idle"
  /\ pcUdp \notin {"swap", "sort", "send", "return_slots"}

SlotsHeld ==
  m_framePool + Len(m_frameBuffer) + Len(m_frameBuffer_trans)

(***************************************************************************)
(* C1 - Pool conservation: at every quiescent point, after any sequence of *)
(* start, admissions, pool growths, flushes and stop, the slots in the     *)
(* pool, the live buffer and the in-flight buffer add up to                *)
(* m_totalAllocCount.  Stated here for the runs in which the uninitialised *)
(* m_totalAllocCount happened to start at 0.  It fails: clearPool, at the  *)
(* end of stop, resets the counter and frees the pool's slots only, while  *)
(* admitted frames that were never flushed stay in the live buffer.        *)
(***************************************************************************)
C1_PoolConservation ==
  (allocGarbage = 0 /\ Quiescent) => SlotsHeld = m_totalAllocCount

(***************************************************************************)
(* C2 - Wire-size accuracy: whenever m_bufferMutex is free,                *)
(* m_frameBufferSize is the sum of CANNELLONI_FRAME_BASE_SIZE + can_dlc    *)
(* over the frames of the live buffer.                                     *)
(***************************************************************************)
C2_WireSizeAccuracy ==
  m_bufferMutex = "free" => m_frameBufferSize = WireSize(m_frameBuffer)

\* A frame was admitted while a flush, past its swap, is sending what an
\* earlier flush's successor swapped out: both buffers hold frames.
C2_Witness ==
  /\ m_bufferMutex = "free"
  /\ pcUdp = "send"
  /\ pcSend = "idle"
  /\ Len(m_frameBuffer_trans) >= 1
  /\ Len(m_frameBuffer) >= 1
  /\ m_sequenceNumber >= 1

(***************************************************************************)
(* What the receive path of run() makes of a datagram that arrives from    *)
(* the configured remote: the frames it hands to the CAN worker.           *)
(***************************************************************************)
ReceivedFrames(buffer) ==
  IF Len(buffer) > 0 /\ ~HeaderDrop(buffer)
  THEN HandedFrames(DecodeFrames(buffer))
  ELSE <<>>

RECURSIVE ReceivedAll(_)
ReceivedAll(datagrams) ==
  IF datagrams = <<>> THEN <<>>
  ELSE ReceivedFrames(Head(datagrams)) \o ReceivedAll(Tail(datagrams))

\* The flush has passed its last datagram to sendto.
FlushSent == pcUdp = "return_slots"

(***************************************************************************)
(* C3 - Codec round-trip: the frames of one flush, in comparator order,    *)
(* serialised by transmitBuffer into one or several datagrams and decoded  *)
(* datagram by datagram by the receive path, come out, concatenated in     *)
(* emission order, as the same sequence of (can_id, can_dlc, data).        *)
(***************************************************************************)
C3_RoundTrip ==
  FlushSent => ReceivedAll(flushOut) = m_frameBuffer_trans

\* Three frames, one of them extended with 8 payload octets and one with
\* no payload, sent as more than one datagram.
C3_Witness ==
  /\ FlushSent
  /\ Len(flushOut) >= 2
  /\ Len(m_frameBuffer_trans) = 3
  /\ \E i, j \in 1 .. 3 :
       m_frameBuffer_trans[i] = FrameB /\ m_frameBuffer_trans[j] = FrameC

C8_NoEmptyFlush ==
  /\ pcUdp = "swap" => m_frameBuffer # <<>>
  /\ pcUdp \in {"sort", "send", "return_slots"} => m_frameBuffer_trans # <<>>
  /\ \A k \in 1 .. Len(flushOut) : CountOf(flushOut[k]) >= 1

\* The timer branch has just handled an expiry with the live buffer empty,
\* after an earlier flush: it went on to the socket branch, and no datagram
\* was added to the one that flush sent.
C8_Witness ==
  /\ pcUdp = "socket"
  /\ "timer" \in readfds
  /\ m_frameBuffer = <<>>
  /\ m_frameBuffer_trans = <<>>
  /\ m_framePool = m_totalAllocCount
  /\ admitted >= 1
  /\ Len(flushOut) = 1
  /\ pcSend = "idle"

(***************************************************************************)
(* C9 - Datagram ceiling and greedy fill: every datagram of a flush is at  *)
(* most UDP_PAYLOAD_SIZE octets long, consists of the header and of whole  *)
(* frame records, as many as its count field says; a datagram that is not  *)
(* the last one could not have taken the first frame of the next one; a    *)
(* batch that fits one datagram (wire size at most UDP_PAYLOAD_SIZE -      *)
(* UDP_DATA_PACKET_BASE_SIZE) is sent as one, and a batch one octet larger *)
(* than that as two.                                                       *)
(***************************************************************************)
C9_DatagramCeiling ==
  /\ \A k \in 1 .. Len(flushOut) :
       LET d      == flushOut[k]
           frames == DecodeFrames(d)
       IN /\ Len(d) <= UDP_PAYLOAD_SIZE
          /\ ~frames.error
          /\ CountOf(d) = Len(frames.canFrames)
          /\ Len(d) = UDP_DATA_PACKET_BASE_SIZE + WireSize(frames.canFrames)
  /\ \A k \in 1 .. Len(flushOut) - 1 :
       Len(flushOut[k])
         + RecordSize(DecodeFrames(flushOut[k + 1]).canFrames[1])
         > UDP_PAYLOAD_SIZE
  /\ FlushSent =>
       /\ WireSize(m_frameBuffer_trans)
            <= UDP_PAYLOAD_SIZE - UDP_DATA_PACKET_BASE_SIZE
            => Len(flushOut) = 1
       /\ WireSize(m_frameBuffer_trans)
            = UDP_PAYLOAD_SIZE - UDP_DATA_PACKET_BASE_SIZE + 1
            => Len(flushOut) = 2

\* A batch one octet over what one datagram takes has been sent as two.
C9_Witness ==
  /\ FlushSent
  /\ WireSize(m_frameBuffer_trans)
       = UDP_PAYLOAD_SIZE - UDP_DATA_PACKET_BASE_SIZE + 1
  /\ Len(flushOut) = 2

\* A batch of exactly what one datagram takes has been sent as one.
C9_WitnessExactFit ==
  /\ FlushSent
  /\ WireSize(m_frameBuffer_trans)
       = UDP_PAYLOAD_SIZE - UDP_DATA_PACKET_BASE_SIZE
  /\ Len(flushOut) = 1

(***************************************************************************)
(* C10 - Sorted flush: the frames of the datagrams of one flush, read in   *)
(* emission order, are in non-decreasing comparator order and are, frame   *)
(* for frame with its multiplicity, the frames the live buffer held when   *)
(* the flush swapped the buffers.                                          *)
(***************************************************************************)
NonDecreasing(frames) ==
  \A i \in 1 .. Len(frames) - 1 : ~can_frame_comp(frames[i + 1], frames[i])

Occurrences(frames, f) == Cardinality({i \in 1 .. Len(frames) : frames[i] = f})

SameFrames(s, t) ==
  /\ Len(s) = Len(t)
  /\ \A i \in 1 .. Len(s) : Occurrences(s, s[i]) = Occurrences(t, s[i])

C10_SortedFlush ==
  FlushSent =>
    /\ NonDecreasing(ReceivedAll(flushOut))
    /\ SameFrames(ReceivedAll(flushOut), swapSnapshot)

\* Three frames admitted in decreasing order, two of them with the same
\* identifier.
C10_Witness ==
  /\ FlushSent
  /\ swapSnapshot = <<FrameB, FrameA, FrameC>>
  /\ ReceivedAll(flushOut) = <<FrameC, FrameA, FrameB>>

(***************************************************************************)
(* The inbound direction.  A step that receives a datagram is one that     *)
(* raises received; lastRx then holds the datagram and its source.         *)
(***************************************************************************)
Receiving == received' = received + 1

\* The header of a datagram, as the wire format defines it.
HeaderInvalid(buffer) ==
  /\ Len(buffer) >= UDP_DATA_PACKET_BASE_SIZE
  /\ \/ buffer[1] # CANNELLONI_FRAME_VERSION
     \/ buffer[2] # DATA
     \/ (buffer[4] * 256) + buffer[5] = 0

HeaderValid(buffer) ==
  /\ Len(buffer) >= UDP_DATA_PACKET_BASE_SIZE
  /\ buffer[1] = CANNELLONI_FRAME_VERSION
  /\ buffer[2] = DATA
  /\ (buffer[4] * 256) + buffer[5] > 0

\* A datagram exactly as a peer builds it from a batch of frames.
WellFormed(buffer) ==
  \E b \in PeerBatches :
    buffer = PeerDatagram(CANNELLONI_FRAME_VERSION, DATA, Len(b), b)

\* Nothing of the datagram reached the CAN worker, and it was not counted.
DroppedUncounted ==
  /\ ~lastRx'.called
  /\ lastRx'.handed = <<>>
  /\ can_frameBuffer' = can_frameBuffer
  /\ can_timerfd' = can_timerfd
  /\ m_rxCount' = m_rxCount

(***************************************************************************)
(* C4 - Truncated datagram: when the decoding of a datagram from the       *)
(* configured remote, with a valid header, runs out of octets (for a frame *)
(* header or for the advertised payload), no frame of that datagram is     *)
(* handed to the CAN worker.  It fails: run() sets error and leaves the    *)
(* loop, but never reads error, and hands the frames extracted so far to   *)
(* transmitCANFrames.                                                      *)
(***************************************************************************)
C4_TruncatedDiscarded ==
  ( /\ lastRx.any
    /\ lastRx.src = m_remoteAddr
    /\ HeaderValid(lastRx.buffer)
    /\ DecodeFrames(lastRx.buffer).error )
  => lastRx.handed = <<>>

(***************************************************************************)
(* C5 - Header validation: a received datagram with a wrong version, an    *)
(* op code other than DATA or a frame count of 0 is dropped:               *)
(* transmitCANFrames is not called, m_rxCount and m_txCount keep their     *)
(* values, and the worker goes on with its loop.                           *)
(***************************************************************************)
C5_HeaderValidation ==
  [][ (Receiving /\ HeaderInvalid(lastRx'.buffer))
        => /\ DroppedUncounted
           /\ m_txCount' = m_txCount
           /\ pcUdp' = "loop" ]_vars

\* The configured remote has sent a datagram of version 0, after a sound
\* one of its datagrams was counted and a datagram was transmitted.
C5_Witness ==
  /\ lastRx.any
  /\ lastRx.src = m_remoteAddr
  /\ HeaderInvalid(lastRx.buffer)
  /\ lastRx.buffer[1] = 0
  /\ ~lastRx.called
  /\ m_rxCount = 1
  /\ m_txCount = 1
  /\ pcUdp = "loop"

SendStep == Len(flushOut') = Len(flushOut) + 1

SendFailed == sendFails' = sendFails + 1 \/ m_udpSocket # "open"

(***************************************************************************)
(* C15 - Best-effort drain: a sendto that fails or writes short leaves     *)
(* m_txCount as it is, a successful one adds exactly 1, and m_txCount      *)
(* changes in no other step; the datagram is not sent again, the flush     *)
(* goes on to its next datagram or to its end; and the end of every flush  *)
(* returns all in-flight slots to the pool and sets                        *)
(* m_frameBufferSize_trans to 0.                                           *)
(***************************************************************************)
C15_BestEffortDrain ==
  [][ /\ SendStep =>
           /\ m_txCount' = IF SendFailed THEN m_txCount ELSE m_txCount + 1
           /\ pcUdp' \in {"send", "return_slots"}
           /\ Len(flushOut') <= Len(Serialise(m_frameBuffer_trans))
           /\ m_frameBuffer_trans' = m_frameBuffer_trans
      /\ m_txCount' # m_txCount => SendStep
      /\ (pcUdp = "return_slots" /\ pcUdp' # "return_slots") =>
           /\ m_framePool' = m_framePool + Len(m_frameBuffer_trans)
           /\ m_frameBuffer_trans' = <<>>
           /\ m_frameBufferSize_trans' = 0 ]_vars

\* A flush of two datagrams, of which sendto failed one on the open socket,
\* has ended: the slots are back and one datagram is counted.
C15_Witness ==
  /\ pcUdp = "socket"
  /\ m_udpSocket = "open"
  /\ Len(flushOut) = 2
  /\ sendFails = 1
  /\ m_txCount = 1
  /\ m_sequenceNumber = 2
  /\ m_frameBuffer_trans = <<>>
  /\ m_frameBufferSize_trans = 0
  /\ m_framePool + Len(m_frameBuffer) = m_totalAllocCount

(***************************************************************************)
(* C16 - Lock ordering: the CAN worker's thread takes m_poolMutex holding  *)
(* no mutex, takes m_bufferMutex holding m_poolMutex, and holds none when  *)
(* sendCANFrame has returned; the UDP worker's thread holds no mutex       *)
(* outside the swap and the return of the slots, so it holds none where it *)
(* takes m_poolMutex; and the two threads never wait for each other.       *)
(***************************************************************************)
C16_LockOrdering ==
  /\ pcSend = "idle" => (m_poolMutex # "can" /\ m_bufferMutex # "can")
  /\ pcSend = "lockBuffer" => (m_poolMutex = "can" /\ m_bufferMutex # "can")
  /\ pcSend = "account" => (m_poolMutex # "can" /\ m_bufferMutex = "can")
  /\ m_poolMutex # "udp"
  /\ m_bufferMutex # "udp"
  /\ ~ ( /\ pcSend = "lockBuffer" /\ m_bufferMutex = "udp"
         /\ pcUdp = "return_slots" /\ m_poolMutex = "can" )

\* The UDP worker is about to take m_poolMutex to return the slots of a
\* flush while the CAN worker's thread holds it and is about to take
\* m_bufferMutex.
C16_Witness ==
  /\ pcUdp = "return_slots"
  /\ pcSend = "lockBuffer"
  /\ m_poolMutex = "can"
  /\ m_bufferMutex = "free"

(***************************************************************************)
(* C17 - Reserve always succeeds: whenever sendCANFrame is called, the     *)
(* pool holds at least one slot when front() is taken, after the growth of *)
(* an empty pool by m_totalAllocCount.  Stated here for the calls made     *)
(* once start has run.  It fails: after stop, clearPool has left           *)
(* m_totalAllocCount at 0, resizePool(0) adds nothing, and front() is      *)
(* taken of an empty list.                                                 *)
(***************************************************************************)
C17_ReserveSucceeds ==
  [][ (admitted' = admitted + 1 /\ pcMain # "new") => m_framePool' >= 1 ]_vars

(***************************************************************************)
(* C19 - Stop releases every slot: when UDPThread::stop has returned, the  *)
(* pool, the live buffer and the in-flight buffer hold no slot and         *)
(* m_totalAllocCount is 0.  It fails: clearPool deletes the slots of the   *)
(* pool only; the frames admitted and not yet flushed keep theirs.         *)
(***************************************************************************)
C19_StopReleasesSlots ==
  pcMain = "stopped" =>
    /\ m_framePool = 0
    /\ m_frameBuffer = <<>>
    /\ m_frameBuffer_trans = <<>>
    /\ m_totalAllocCount = 0

(***************************************************************************)
(* C18 - Decoded payload length is bounded: every frame the receive path   *)
(* hands to the CAN worker has a can_dlc of 0 to CAN_MAX_DLEN and no more  *)
(* than CAN_MAX_DLEN payload octets were copied into it, whatever the      *)
(* length octet of its record.  It fails: can_dlc is taken from the wire   *)
(* unchecked and is the length of the memcpy into frame.data.              *)
(***************************************************************************)
C18_PayloadLengthBounded ==
  lastRx.called =>
    \A k \in 1 .. Len(lastRx.handed) :
      /\ lastRx.handed[k].can_dlc \in 0 .. CAN_MAX_DLEN
      /\ Len(lastRx.handed[k].data) <= CAN_MAX_DLEN

(***************************************************************************)
(* C20 - Lifecycle flag consistency: once privRun has finished, m_running, *)
(* which isRunning() returns, is false in every later state.  It fails:    *)
(* Thread::start sets m_running after it has created the thread, and       *)
(* overwrites the false of a privRun that has finished by then.            *)
(***************************************************************************)
C20_LifecycleFlag ==
  pcUdp = "exit" => ~m_running

(***************************************************************************)
(* C12 - Size-triggered flush: while the UDP worker's thread runs, every    *)
(* admission that leaves the accumulated size at the ceiling               *)
(* (m_frameBufferSize + UDP_DATA_PACKET_BASE_SIZE >= UDP_PAYLOAD_SIZE)     *)
(* leaves the timer with an immediate expiry pending, and with the live    *)
(* buffer at the ceiling that expiry stays pending until the worker reads  *)
(* it and enters transmitBuffer.  It fails: an admission that reaches the  *)
(* ceiling after start has created the thread and before run() arms the    *)
(* timer fires a timer that run() then re-arms with the full period.       *)
(***************************************************************************)
WorkerRuns ==
  pcUdp \in {"run", "loop", "select", "timer", "swap", "sort", "send",
             "return_slots", "socket"}

C12_SizeTriggeredFlush ==
  [][ /\ ( /\ WorkerRuns
           /\ pcSend = "account" /\ pcSend' = "idle"
           /\ SizeTrigger(m_frameBufferSize') )
        => m_timerfd' = "immediate"
      /\ ( /\ WorkerRuns
           /\ m_timerfd = "immediate" /\ m_timerfd' # "immediate"
           /\ SizeTrigger(m_frameBufferSize) )
        => pcUdp' = "swap" ]_vars

(***************************************************************************)
(* C13 - Aggregation by timeout: frames that fit one datagram together     *)
(* (wire size + UDP_DATA_PACKET_BASE_SIZE < UDP_PAYLOAD_SIZE) and are      *)
(* admitted within less than one flush period, so that at most one         *)
(* periodic expiry falls between the first and the last admission, leave   *)
(* in exactly one datagram: no second datagram is passed to sendto.  It    *)
(* fails: the timer runs freely from the start of run(), an admission does *)
(* not restart it, and an expiry between two admissions flushes the first  *)
(* frames on their own.                                                    *)
(***************************************************************************)
C13_AggregationByTimeout ==
  ( /\ admitted >= 1
    /\ window.last <= 1
    /\ window.size + UDP_DATA_PACKET_BASE_SIZE < UDP_PAYLOAD_SIZE )
  => m_sequenceNumber <= 1

(***************************************************************************)
(* The inbound direction, continued: the CAN worker.  canHanded is every   *)
(* frame transmitCANFrames was given, in the order of the calls; canWritten *)
(* is every frame transmitBuffer has passed to write(), in the order of    *)
(* the writes.                                                             *)
(***************************************************************************)
\* The frames of the in-flight buffer that the write loop has yet to reach.
CanPending ==
  SubSeq(can_frameBuffer_trans, canTxIndex, Len(can_frameBuffer_trans))

\* The CAN worker is in the write loop of transmitBuffer.
CanFlushing == pcCan = "write"

C11_WitnessInterleaved ==
  /\ CanFlushing
  /\ CanPending # <<>>
  /\ can_frameBuffer # <<>>

(***************************************************************************)
(* Shutdown.  UDPThread::stop and CANThread::stop have been called once    *)
(* their first step is taken; they have joined the worker once join() has  *)
(* returned.                                                               *)
(***************************************************************************)
UdpStopCalled == pcMain \in {"shutdown", "closed", "join"}

UdpJoined == pcMain \in {"clear", "stopped"} /\ pcUdp = "exit"

CanStopCalled == pcCanMain \in {"fired", "closed", "join"}

CanJoined == pcCanMain = "stopped" /\ pcCan = "exit"

(***************************************************************************)
(* C14 - Shutdown terminates: once stop is called on a running worker, UDP *)
(* or CAN, then however its steps (shutdown and close of the socket, the   *)
(* firing of the timer, the clearing of m_started) interleave with the     *)
(* worker's loop, the loop exits and the join in Thread::stop returns.     *)
(* The UDP worker leaves select on the shut-down or closed socket; the CAN *)
(* worker, which neither shutdown nor close wakes, leaves it on an expiry  *)
(* of its periodic timer or finds the descriptor closed when it enters it. *)
(***************************************************************************)
C14_ShutdownTerminates ==
  /\ UdpStopCalled ~> UdpJoined
  /\ CanStopCalled ~> CanJoined

\* Both workers were stopped and joined after each had done its work: the
\* CAN worker wrote frames of the peer, the UDP worker sent the frame of
\* the bus.
C14_Witness ==
  /\ UdpJoined
  /\ CanJoined
  /\ pcMain = "stopped"
  /\ can_txCount >= 1
  /\ m_txCount >= 1

\* The CAN worker was waiting in select when stop closed its socket.
C14_WitnessBlocked ==
  /\ pcCan = "blocked"
  /\ can_socket = "closed"
  /\ can_started

=============================================================================
